---- MODULE Spec2Model ----
(***************************************************************************)
(* The rental lifecycle of sportrent (rentals/views.py, rentals/forms.py,  *)
(* chat/views.py): the tables the rental views read and write, and one     *)
(* pair of actions per view.  A view reads its rows first (the "Request"   *)
(* action: get_object_or_404 and the guards up to the first redirect) and  *)
(* writes inside `with transaction.atomic()` afterwards (the "Commit"      *)
(* action); other requests may run in between.  Money is in kopecks.       *)
(* The websocket consumers of chat/consumers.py are sessions that join and *)
(* leave the groups of the channel layer.                                  *)
(***************************************************************************)
EXTENDS Integers, Sequences, FiniteSets, TLC

VARIABLES
    rentals,     \* table rentals: rental_id (1..Len) -> row
    payments,    \* table payments: payment_id (1..Len) -> row
    inventory,   \* the row of the inventory item the rentals are about
    clients,     \* table clients: client -> [total_rentals, loyalty_points]
    owner,       \* the row of the item's owner: [total_earnings]
    agreements,  \* table owner_agreements of that owner, in created_date order
    inflight,    \* requests that passed their guards and have not yet written
    resp,        \* the answer to the last request: the view and its message level
    sessions,    \* the websocket consumers: session -> its attributes, its state,
                 \* the events on its channel and the frames sent to its socket
    groups,      \* the channel layer: the pairs <<group name, session>>
    chat_messages,  \* table chat_messages, in sent_date order
    sent         \* the events passed to channel_layer.group_send, in order

db == <<rentals, payments, inventory, clients, owner, agreements>>
chat == <<sessions, groups, chat_messages, sent>>
vars == <<rentals, payments, inventory, clients, owner, agreements, inflight, resp,
          sessions, groups, chat_messages, sent>>

----------------------------------------------------------------------------
\* Bounds of the model.
MaxRentals == 2
MaxInFlight == 1
MaxOvertake == 1
MaxDay == 3
MaxSessions == 2
MaxMessages == 1
MaxDisconnects == 2

\* timezone.now().date(): day 0 is in the past.
Today == 1
\* client.loyalty_points += 10
LoyaltyBonus == 10

Clients == {"c1", "c2"}
Managers == {"m1", "m2"}
Users == Clients \cup Managers \cup {"o1", "a1"}
None == "none"

\* scope['user'] of a connection without a login (AnonymousUser).
Anonymous == "anon"

Role(u) ==
    IF u \in Clients THEN "client"
    ELSE IF u \in Managers THEN "manager"
    ELSE IF u = "o1" THEN "owner"
    ELSE IF u = "a1" THEN "administrator"
    ELSE None

SessionIds == 1..MaxSessions

\* A consumer instance before its connect handler has run: no attribute is set.
NewSession ==
    [consumer |-> None, user |-> None, rental_id |-> 0, state |-> "initial",
     other_user_id |-> None, group |-> None, disconnects |-> 0,
     message |-> 0, inbox |-> << >>, socket |-> << >>]

\* No websocket is open and no chat message has been sent.
ChatIdle ==
    /\ sessions = [s \in SessionIds |-> NewSession]
    /\ groups = {}
    /\ chat_messages = << >>
    /\ sent = << >>

Days == 0..MaxDay
Reasons == {"", "damaged"}

\* Rental.STATUS_CHOICES
RentalStatuses ==
    {"inquiry", "pending", "confirmed", "active", "completed", "cancelled", "rejected"}

\* The value of a request field that the view does not read.
NoRow ==
    [client |-> None, manager |-> None, start_date |-> 0, end_date |-> 0,
     returned |-> FALSE, total_price |-> 0, deposit_paid |-> 0,
     status |-> None, payment_status |-> None, rejection_reason |-> ""]
NoInventory ==
    [status |-> None, manager |-> None, price_per_day |-> 0, deposit_amount |-> 0,
     min_rental_days |-> 0, max_rental_days |-> 0, total_rentals |-> 0,
     bank_account |-> FALSE]

\* A request between its reads and its writes: the rows it holds in memory.
Request(op, actor, pk, row, inv, earnings, a1, a2) ==
    [overtaken |-> 0, op |-> op, actor |-> actor, pk |-> pk,
     rental |-> row, inventory |-> inv, owner_earnings |-> earnings,
     arg1 |-> a1, arg2 |-> a2, reason |-> ""]

\* django.contrib.messages: the level of the message a view shows for an outcome;
\* "invalid" is a form shown again with its errors, "none" a plain redirect.
Level(msg) ==
    CASE msg \in {"forbidden", "clients_only", "client_only", "no_access", "no_rights",
                  "not_available", "no_manager", "bad_days", "failed",
                  "not_your_item"} -> "error"
      [] msg \in {"already_processed", "not_paid", "pay_unavailable", "cannot_complete",
                  "cannot_extend", "cannot_cancel", "no_agreement",
                  "no_bank_account", "not_awaiting_contract"} -> "warning"
      [] msg \in {"already_paid", "rejected"} -> "info"
      [] msg \in {"created", "confirmed", "paid", "paid_owner", "cancelled",
                  "extended", "approved", "published", "updated"} -> "success"
      [] msg \in {"start_in_past", "end_not_after_start", "min_period", "max_period",
                  "already_booked"} -> "invalid"
      [] OTHER -> "none"

\* What the actor of a request sees: the view that answered and the level of its
\* message.
Message(op, msg) == [op |-> op, level |-> Level(msg)]

----------------------------------------------------------------------------
\* An owner_agreements row.
Agreement(percentage, accepted) ==
    [owner_percentage |-> percentage, is_accepted |-> accepted]

\* A published inventory row: its manager (None when none is assigned), its price
\* per day, whether a payout bank account is bound to it, its rental period limits.
Item(m, p, b, min, max) ==
    [status |-> "available", manager |-> m, price_per_day |-> p,
     deposit_amount |-> 15000, min_rental_days |-> min, max_rental_days |-> max,
     total_rentals |-> 0, bank_account |-> b]

\* The items and owners the model starts from: the 70/30 agreement made at
\* registration; an item without a manager at 99.99 a day whose owner has an older
\* accepted agreement, a newer accepted one and a newest one that is not accepted;
\* an item without a bank account; an owner without agreements; an owner whose
\* older agreement is not accepted; an owner whose only agreement is not accepted.
Scenarios ==
    { [item |-> Item("m1", 50000, TRUE, 1, 2),
       agreements |-> << Agreement(70, TRUE) >>],
      [item |-> Item(None, 9999, TRUE, 1, 1),
       agreements |-> << Agreement(50, TRUE), Agreement(70, TRUE),
                         Agreement(100, FALSE) >>],
      [item |-> Item("m1", 50000, FALSE, 2, 2),
       agreements |-> << Agreement(70, TRUE) >>],
      [item |-> Item("m1", 9999, TRUE, 2, 2),
       agreements |-> << >>],
      [item |-> Item("m1", 9999, TRUE, 2, 2),
       agreements |-> << Agreement(50, FALSE), Agreement(70, TRUE) >>],
      [item |-> Item("m1", 50000, TRUE, 2, 2),
       agreements |-> << Agreement(50, FALSE) >>] }

InitTables ==
    /\ rentals = << >>
    /\ payments = << >>
    /\ clients = [c \in Clients |-> [total_rentals |-> 0, loyalty_points |-> 0]]
    /\ owner = [total_earnings |-> 0]
    /\ inflight = {}
    /\ resp = Message("none", "none")
    /\ ChatIdle

Init ==
    /\ InitTables
    /\ \E sc \in Scenarios : inventory = sc.item /\ agreements = sc.agreements

----------------------------------------------------------------------------
\* Helpers.

ActiveStatuses == {"pending", "confirmed", "active"}
TerminalStatuses == {"completed", "cancelled", "rejected"}

\* The overlap query with closed intervals: a rental that ends on the day the
\* window starts blocks it.
OverlappingInclusive(start, end) ==
    { i \in DOMAIN rentals :
        /\ rentals[i].status \in ActiveStatuses
        /\ rentals[i].start_date <= end
        /\ rentals[i].end_date >= start }

\* RentalCreateForm.clean: the rentals that block the window [start, end).
Overlapping(start, end) ==
    { i \in DOMAIN rentals :
        /\ rentals[i].status \in ActiveStatuses
        /\ rentals[i].start_date < end
        /\ rentals[i].end_date > start }

\* The form without the test of min_rental_days.
CreateFormErrorWithoutMinimum(inv, start, end) ==
    IF start < Today THEN "start_in_past"
    ELSE IF end <= start THEN "end_not_after_start"
    ELSE IF end - start > inv.max_rental_days THEN "max_period"
    ELSE IF Overlapping(start, end) # {} THEN "already_booked"
    ELSE "ok"

\* RentalCreateForm.clean_start_date and clean: the error of the form, or "ok".
CreateFormError(inv, start, end) ==
    IF start < Today THEN "start_in_past"
    ELSE IF end <= start THEN "end_not_after_start"
    ELSE IF end - start < inv.min_rental_days THEN "min_period"
    ELSE IF end - start > inv.max_rental_days THEN "max_period"
    ELSE IF Overlapping(start, end) # {} THEN "already_booked"
    ELSE "ok"

\* rental_create, the guards before the form is bound.
CreateGuard(actor, inv) ==
    IF Role(actor) # "client" THEN "clients_only"
    ELSE IF inv.status # "available" THEN "not_available"
    ELSE "ok"

\* rental_confirm without its payment guard.
ConfirmGuardWithoutPayment(actor, row) ==
    IF Role(actor) # "manager" THEN "forbidden"
    ELSE IF row.status # "pending" THEN "already_processed"
    ELSE "ok"

\* rental_confirm, the guards before the transaction.
ConfirmGuard(actor, row) ==
    IF Role(actor) # "manager" THEN "forbidden"
    ELSE IF row.status # "pending" THEN "already_processed"
    ELSE IF row.payment_status # "paid" THEN "not_paid"
    ELSE "ok"

\* rental_pay without the test that the rental is the client's own.
PayGuardAnyClient(actor, row) ==
    IF Role(actor) # "client" THEN "client_only"
    ELSE IF row.payment_status = "paid" THEN "already_paid"
    ELSE IF row.status # "pending" THEN "pay_unavailable"
    ELSE "ok"

\* rental_pay, the guards before the transaction.
PayGuard(actor, row) ==
    IF Role(actor) # "client" THEN "client_only"
    ELSE IF row.client # actor THEN "no_access"
    ELSE IF row.payment_status = "paid" THEN "already_paid"
    ELSE IF row.status # "pending" THEN "pay_unavailable"
    ELSE "ok"

\* rental_reject, the guards before the transaction.
RejectGuard(actor, row) ==
    IF Role(actor) # "manager" THEN "forbidden"
    ELSE IF row.status # "pending" THEN "already_processed"
    ELSE "ok"

\* rental_complete without its status guard.
CompleteGuardAnyStatus(actor, row) ==
    IF Role(actor) # "manager" THEN "forbidden" ELSE "ok"

\* rental_complete, the guards before the transaction.
CompleteGuard(actor, row) ==
    IF Role(actor) # "manager" THEN "forbidden"
    ELSE IF row.status \notin {"confirmed", "active"} THEN "cannot_complete"
    ELSE "ok"

\* rental_extend, the guards before the transaction.
ExtendGuard(actor, row, days) ==
    IF Role(actor) # "manager" THEN "forbidden"
    ELSE IF row.status \in {"completed", "cancelled", "rejected"} THEN "cannot_extend"
    ELSE IF days <= 0 THEN "bad_days"
    ELSE "ok"

\* rental_cancel, the guards before the transaction.
CancelGuard(actor, row) ==
    IF Role(actor) = "client" /\ row.client # actor THEN "no_rights"
    ELSE IF Role(actor) \notin {"client", "manager", "administrator"} THEN "forbidden"
    ELSE IF row.status \notin {"pending", "confirmed"} THEN "cannot_cancel"
    ELSE "ok"

\* OwnerAgreement.objects.filter(owner=..., is_accepted=True)
\*     .order_by('-created_date').first(): its index, 0 when there is none.
AcceptedAgreements == { i \in DOMAIN agreements : agreements[i].is_accepted }
\* The accepted agreement created first, where the view takes the one created
\* last.
OldestAcceptedAgreement ==
    IF AcceptedAgreements = {} THEN 0
    ELSE CHOOSE i \in AcceptedAgreements : \A j \in AcceptedAgreements : i <= j

CurrentAgreement ==
    IF AcceptedAgreements = {} THEN 0
    ELSE CHOOSE i \in AcceptedAgreements : \A j \in AcceptedAgreements : j <= i

\* (rental.total_price * agreement.owner_percentage) / 100, in 1/100 kopeck.
OwnerAmount(total_price, percentage) == total_price * percentage

\* What a DecimalField(decimal_places=2) keeps of a value given in 1/100 kopeck:
\* the nearest kopeck; a tie goes to the even kopeck (Django's format_number) or
\* up (a numeric(12,2) column), depending on the database backend.
StoredDecimal(n) ==
    LET lo == n \div 100
        rest == n % 100
    IN  IF rest < 50 THEN {lo}
        ELSE IF rest > 50 THEN {lo + 1}
        ELSE {lo + (lo % 2), lo + 1}

\* Rentals that exist or are about to be inserted by a request in flight.
RowsClaimed ==
    Len(rentals) + Cardinality({ q \in inflight : q.op \in {"create", "start_chat"} })

Reply(op, msg) ==
    /\ resp' = Message(op, msg)
    /\ UNCHANGED db

Admit(q) ==
    /\ inflight' = inflight \cup {q}
    /\ UNCHANGED <<db, resp, chat>>

\* An exception inside `with transaction.atomic()`: every write of the block is
\* rolled back and the view reports the error.
Rollback(q) ==
    /\ resp' = Message(q.op, "failed")
    /\ UNCHANGED db

Finish(q) == inflight' = inflight \ {q} /\ UNCHANGED chat

\* with transaction.atomic(): the writes of the block, or none of them when an
\* exception is raised inside it.
Atomic(q, writes) == \E ok \in BOOLEAN : IF ok THEN writes ELSE Rollback(q)


----------------------------------------------------------------------------
\* rental_create

CreateReads(actor, start, end) ==
    Request("create", actor, 0, NoRow, inventory, 0, start, end)

\* form.save(commit=False) and the fields rental_create sets before rental.save().
NewRental(q) ==
    [client |-> q.actor,
     manager |-> q.inventory.manager,
     start_date |-> q.arg1,
     end_date |-> q.arg2,
     returned |-> FALSE,
     total_price |-> q.inventory.price_per_day * (q.arg2 - q.arg1),
     deposit_paid |-> q.inventory.deposit_amount,
     status |-> "pending",
     payment_status |-> "pending",
     rejection_reason |-> ""]

CreateApply(q) ==
    LET row == NewRental(q)
    IN  /\ rentals' = Append(rentals, row)
        /\ payments' = Append(payments,
                              [rental |-> Len(rentals) + 1,
                               amount |-> row.total_price + row.deposit_paid,
                               status |-> "pending",
                               paid |-> FALSE])
        /\ resp' = Message("create", "created")
        /\ UNCHANGED <<inventory, clients, owner, agreements>>

CreateTransaction(q) == Atomic(q, CreateApply(q))

----------------------------------------------------------------------------
\* start_chat_by_inventory

StartChatGuard(actor, inv) ==
    IF Role(actor) # "client" THEN "client_only"
    ELSE IF inv.status # "available" THEN "not_found"
    ELSE IF inv.manager = None THEN "no_manager"
    ELSE IF \E i \in DOMAIN rentals :
                rentals[i].client = actor /\ rentals[i].status = "inquiry"
         THEN "reused"
    ELSE "ok"

StartChatReads(actor) ==
    Request("start_chat", actor, 0, NoRow, inventory, 0, 0, 0)

InquiryRental(q) ==
    [client |-> q.actor,
     manager |-> q.inventory.manager,
     start_date |-> Today,
     end_date |-> Today + 1,
     returned |-> FALSE,
     total_price |-> 0,
     deposit_paid |-> 0,
     status |-> "inquiry",
     payment_status |-> "pending",
     rejection_reason |-> ""]

\* Rental.objects.create(...), outside any transaction block.
StartChatApply(q) ==
    /\ rentals' = Append(rentals, InquiryRental(q))
    /\ resp' = Message("start_chat", "opened")
    /\ UNCHANGED <<payments, inventory, clients, owner, agreements>>

----------------------------------------------------------------------------
\* rental_confirm

ConfirmReads(actor, pk) ==
    Request("confirm", actor, pk, rentals[pk], NoInventory, 0, 0, 0)

\* rental.save() writes every field of the row the view holds; rental.inventory
\* is read inside the transaction.
ConfirmApply(q) ==
    /\ rentals' = [rentals EXCEPT ![q.pk] =
                      [q.rental EXCEPT !.status = "confirmed", !.manager = q.actor]]
    /\ inventory' = [inventory EXCEPT !.status = "rented"]
    /\ resp' = Message("confirm", "confirmed")
    /\ UNCHANGED <<payments, clients, owner, agreements>>

\* rental_confirm without its transaction block: an exception after rental.save()
\* leaves the rental confirmed and the inventory as it was.
ConfirmTransactionUnprotected(q) ==
    \/ ConfirmApply(q)
    \/ /\ rentals' = [rentals EXCEPT ![q.pk] =
                          [q.rental EXCEPT !.status = "confirmed", !.manager = q.actor]]
       /\ resp' = Message(q.op, "failed")
       /\ UNCHANGED <<payments, inventory, clients, owner, agreements>>

ConfirmTransaction(q) == Atomic(q, ConfirmApply(q))

----------------------------------------------------------------------------
\* rental_pay

PayReads(actor, pk) ==
    Request("pay", actor, pk, rentals[pk], NoInventory, 0, 0, 0)

\* rental.payments.filter(status='pending').first(): 0 when there is none.
PendingPayment(pk) ==
    LET ps == { i \in DOMAIN payments :
                  payments[i].rental = pk /\ payments[i].status = "pending" }
    IN  IF ps = {} THEN 0 ELSE CHOOSE i \in ps : \A j \in ps : i <= j

\* rental_pay without the update of the Payment row.
PayApplyWithoutPayment(q) ==
    /\ rentals' = [rentals EXCEPT ![q.pk] =
                      [q.rental EXCEPT !.payment_status = "paid"]]
    /\ resp' = Message("pay", "paid")
    /\ UNCHANGED <<payments, inventory, clients, owner, agreements>>

PayApply(q) ==
    LET p == PendingPayment(q.pk)
    IN  /\ payments' = IF p = 0 THEN payments
                       ELSE [payments EXCEPT ![p].status = "completed", ![p].paid = TRUE]
        /\ rentals' = [rentals EXCEPT ![q.pk] =
                          [q.rental EXCEPT !.payment_status = "paid"]]
        /\ resp' = Message("pay", "paid")
        /\ UNCHANGED <<inventory, clients, owner, agreements>>

PayTransaction(q) == Atomic(q, PayApply(q))

----------------------------------------------------------------------------
\* rental_reject

RejectReads(actor, pk, reason) ==
    [Request("reject", actor, pk, rentals[pk], NoInventory, 0, 0, 0)
        EXCEPT !.reason = reason]

RejectApply(q) ==
    /\ rentals' = [rentals EXCEPT ![q.pk] =
                      [q.rental EXCEPT !.status = "rejected",
                                       !.rejection_reason = q.reason]]
    /\ resp' = Message("reject", "rejected")
    /\ UNCHANGED <<payments, inventory, clients, owner, agreements>>

RejectTransaction(q) == Atomic(q, RejectApply(q))

----------------------------------------------------------------------------
\* rental_complete

\* select_related('inventory', 'inventory__owner'): the inventory and owner rows
\* are read together with the rental, before the guards.
CompleteReads(actor, pk) ==
    Request("complete", actor, pk, rentals[pk], inventory, owner.total_earnings, 0, 0)

\* The payout without the test of inventory.bank_account.
PayoutWithoutBankCheck(q) ==
    IF CurrentAgreement # 0
    THEN /\ \E e \in StoredDecimal(
                   q.owner_earnings * 100
                   + OwnerAmount(q.rental.total_price,
                                 agreements[CurrentAgreement].owner_percentage)) :
               owner' = [owner EXCEPT !.total_earnings = e]
         /\ resp' = Message("complete", "paid_owner")
    ELSE /\ owner' = owner
         /\ resp' = Message("complete", "no_agreement")

\* "Выплата владельцу": the owner row the view holds gets the amount added and is
\* saved; without a bank account or an accepted agreement nothing is saved.
Payout(q) ==
    IF q.inventory.bank_account /\ CurrentAgreement # 0
    THEN /\ \E e \in StoredDecimal(
                   q.owner_earnings * 100
                   + OwnerAmount(q.rental.total_price,
                                 agreements[CurrentAgreement].owner_percentage)) :
               owner' = [owner EXCEPT !.total_earnings = e]
         /\ resp' = Message("complete", "paid_owner")
    ELSE /\ owner' = owner
         /\ resp' = Message("complete",
                            IF q.inventory.bank_account THEN "no_agreement"
                            ELSE "no_bank_account")

\* rental.client is read inside the transaction; rental.inventory is the row
\* read with the rental.
CompleteApply(q) ==
    /\ rentals' = [rentals EXCEPT ![q.pk] =
                      [q.rental EXCEPT !.status = "completed", !.returned = TRUE]]
    /\ inventory' = [q.inventory EXCEPT !.status = "available",
                                        !.total_rentals = @ + 1]
    /\ clients' = [clients EXCEPT ![q.rental.client] =
                      [total_rentals |-> @.total_rentals + 1,
                       loyalty_points |-> @.loyalty_points + LoyaltyBonus]]
    /\ Payout(q)
    /\ UNCHANGED <<payments, agreements>>

\* rental_complete without its transaction block: an exception after
\* inventory.save() leaves the rental completed and the inventory returned, the
\* client and the owner as they were.
CompleteTransactionUnprotected(q) ==
    \/ CompleteApply(q)
    \/ /\ rentals' = [rentals EXCEPT ![q.pk] =
                          [q.rental EXCEPT !.status = "completed", !.returned = TRUE]]
       /\ inventory' = [q.inventory EXCEPT !.status = "available",
                                           !.total_rentals = @ + 1]
       /\ resp' = Message(q.op, "failed")
       /\ UNCHANGED <<payments, clients, owner, agreements>>

CompleteTransaction(q) == Atomic(q, CompleteApply(q))

----------------------------------------------------------------------------
\* rental_extend

ExtendReads(actor, pk, days) ==
    Request("extend", actor, pk, rentals[pk], NoInventory, 0, days, 0)

\* rental_extend as it would write if `rental.additional_payment` could be read:
\* the end date moved and payment_status set to delayed.
ExtendTransactionWithField(q) ==
    /\ rentals' = [rentals EXCEPT ![q.pk] =
                      [q.rental EXCEPT !.end_date = @ + q.arg1,
                                       !.payment_status = "delayed"]]
    /\ resp' = Message("extend", "extended")
    /\ UNCHANGED <<payments, inventory, clients, owner, agreements>>

\* `rental.additional_payment += additional_price` reads a field the Rental model
\* does not define: the AttributeError is raised before rental.save(), the block
\* is left with nothing written, and the view reports the error.
ExtendTransaction(q) == Rollback(q)

----------------------------------------------------------------------------
\* rental_cancel

CancelReads(actor, pk) ==
    Request("cancel", actor, pk, rentals[pk], NoInventory, 0, 0, 0)

\* rental_cancel without the release of the inventory.
CancelApplyKeepingInventory(q) ==
    /\ rentals' = [rentals EXCEPT ![q.pk] = [q.rental EXCEPT !.status = "cancelled"]]
    /\ resp' = Message("cancel", "cancelled")
    /\ UNCHANGED <<payments, inventory, clients, owner, agreements>>

\* rental.inventory is read inside the transaction.
CancelApply(q) ==
    /\ rentals' = [rentals EXCEPT ![q.pk] = [q.rental EXCEPT !.status = "cancelled"]]
    /\ inventory' = IF inventory.status = "rented"
                    THEN [inventory EXCEPT !.status = "available"]
                    ELSE inventory
    /\ resp' = Message("cancel", "cancelled")
    /\ UNCHANGED <<payments, clients, owner, agreements>>

CancelTransaction(q) == Atomic(q, CancelApply(q))

----------------------------------------------------------------------------
\* The views, each served from its reads to its redirect without another request
\* in between.  Every request is a POST (a GET passes the same guards and writes
\* nothing).

\* rental_create for the posted dates start and end.
CreateFor(actor, start, end) ==
    LET g == CreateGuard(actor, inventory)
        f == CreateFormError(inventory, start, end)
    IN  IF g # "ok" THEN Reply("create", g)
        ELSE IF f # "ok" THEN Reply("create", f)
        ELSE /\ RowsClaimed < MaxRentals
             /\ CreateTransaction(CreateReads(actor, start, end))

\* rental_create: the dates are read only once the guards have passed.
Create(actor) ==
    LET g == CreateGuard(actor, inventory)
    IN  IF g # "ok" THEN Reply("create", g)
        ELSE \E start \in Days, end \in Days : CreateFor(actor, start, end)

StartChat(actor) ==
    LET g == StartChatGuard(actor, inventory)
    IN  IF g # "ok" THEN Reply("start_chat", g)
        ELSE /\ RowsClaimed < MaxRentals
             /\ StartChatApply(StartChatReads(actor))

Confirm(actor, pk) ==
    LET g == ConfirmGuard(actor, rentals[pk])
    IN  IF g # "ok" THEN Reply("confirm", g)
        ELSE ConfirmTransaction(ConfirmReads(actor, pk))

Pay(actor, pk) ==
    LET g == PayGuard(actor, rentals[pk])
    IN  IF g # "ok" THEN Reply("pay", g)
        ELSE PayTransaction(PayReads(actor, pk))

Reject(actor, pk, reason) ==
    LET g == RejectGuard(actor, rentals[pk])
    IN  IF g # "ok" THEN Reply("reject", g)
        ELSE RejectTransaction(RejectReads(actor, pk, reason))

Complete(actor, pk) ==
    LET g == CompleteGuard(actor, rentals[pk])
    IN  IF g # "ok" THEN Reply("complete", g)
        ELSE CompleteTransaction(CompleteReads(actor, pk))

Extend(actor, pk, days) ==
    LET g == ExtendGuard(actor, rentals[pk], days)
    IN  IF g # "ok" THEN Reply("extend", g)
        ELSE ExtendTransaction(ExtendReads(actor, pk, days))

Cancel(actor, pk) ==
    LET g == CancelGuard(actor, rentals[pk])
    IN  IF g # "ok" THEN Reply("cancel", g)
        ELSE CancelTransaction(CancelReads(actor, pk))

ExtraDays == {0, 1}

\* A request served with no request held meanwhile.
Serve(view) == view /\ UNCHANGED <<inflight, chat>>

Next ==
    \/ \E a \in Users : Serve(Create(a))
    \/ \E a \in Users : Serve(StartChat(a))
    \/ \E a \in Users, pk \in DOMAIN rentals : Serve(Confirm(a, pk))
    \/ \E a \in Users, pk \in DOMAIN rentals : Serve(Pay(a, pk))
    \/ \E a \in Users, pk \in DOMAIN rentals, r \in Reasons : Serve(Reject(a, pk, r))
    \/ \E a \in Users, pk \in DOMAIN rentals : Serve(Complete(a, pk))
    \/ \E a \in Users, pk \in DOMAIN rentals, d \in ExtraDays : Serve(Extend(a, pk, d))
    \/ \E a \in Users, pk \in DOMAIN rentals : Serve(Cancel(a, pk))

Spec == Init /\ [][Next]_vars

----------------------------------------------------------------------------
\* The views served concurrently: a request reads its rows and passes its guards
\* (Request), other requests are served meanwhile (Overtake), and it writes from
\* the rows it holds (Commit).  At most MaxInFlight requests are held between
\* their reads and their writes, and at most MaxOvertake requests are served
\* while one is held; since reads change nothing, one held request and one served
\* request give every interleaving of two requests.

CreateRequest(actor) ==
    /\ CreateGuard(actor, inventory) = "ok"
    /\ \E start \in Days, end \in Days :
         /\ CreateFormError(inventory, start, end) = "ok"
         /\ RowsClaimed < MaxRentals
         /\ Admit(CreateReads(actor, start, end))

StartChatRequest(actor) ==
    /\ StartChatGuard(actor, inventory) = "ok"
    /\ RowsClaimed < MaxRentals
    /\ Admit(StartChatReads(actor))

ConfirmRequest(actor, pk) ==
    ConfirmGuard(actor, rentals[pk]) = "ok" /\ Admit(ConfirmReads(actor, pk))

PayRequest(actor, pk) ==
    PayGuard(actor, rentals[pk]) = "ok" /\ Admit(PayReads(actor, pk))

RejectRequest(actor, pk, reason) ==
    RejectGuard(actor, rentals[pk]) = "ok" /\ Admit(RejectReads(actor, pk, reason))

CompleteRequest(actor, pk) ==
    CompleteGuard(actor, rentals[pk]) = "ok" /\ Admit(CompleteReads(actor, pk))

ExtendRequest(actor, pk, days) ==
    ExtendGuard(actor, rentals[pk], days) = "ok" /\ Admit(ExtendReads(actor, pk, days))

CancelRequest(actor, pk) ==
    CancelGuard(actor, rentals[pk]) = "ok" /\ Admit(CancelReads(actor, pk))

CreateCommit(q) == q.op = "create" /\ CreateTransaction(q) /\ Finish(q)
StartChatCommit(q) == q.op = "start_chat" /\ StartChatApply(q) /\ Finish(q)
ConfirmCommit(q) == q.op = "confirm" /\ ConfirmTransaction(q) /\ Finish(q)
PayCommit(q) == q.op = "pay" /\ PayTransaction(q) /\ Finish(q)
RejectCommit(q) == q.op = "reject" /\ RejectTransaction(q) /\ Finish(q)
CompleteCommit(q) == q.op = "complete" /\ CompleteTransaction(q) /\ Finish(q)
ExtendCommit(q) == q.op = "extend" /\ ExtendTransaction(q) /\ Finish(q)
CancelCommit(q) == q.op = "cancel" /\ CancelTransaction(q) /\ Finish(q)

\* The actors of the concurrent requests: two clients and a manager.
ConcUsers == {"c1", "c2", "m1"}

\* A request served while the requests in flight are held.
Overtake(view) ==
    /\ \A q \in inflight : q.overtaken < MaxOvertake
    /\ view
    /\ inflight' = { [q EXCEPT !.overtaken = @ + 1] : q \in inflight }
    /\ UNCHANGED chat

Serves ==
    \/ \E a \in ConcUsers : Overtake(Create(a))
    \/ \E a \in ConcUsers : Overtake(StartChat(a))
    \/ \E a \in ConcUsers, pk \in DOMAIN rentals : Overtake(Confirm(a, pk))
    \/ \E a \in ConcUsers, pk \in DOMAIN rentals : Overtake(Pay(a, pk))
    \/ \E a \in ConcUsers, pk \in DOMAIN rentals, r \in Reasons : Overtake(Reject(a, pk, r))
    \/ \E a \in ConcUsers, pk \in DOMAIN rentals : Overtake(Complete(a, pk))
    \/ \E a \in ConcUsers, pk \in DOMAIN rentals, d \in ExtraDays : Overtake(Extend(a, pk, d))
    \/ \E a \in ConcUsers, pk \in DOMAIN rentals : Overtake(Cancel(a, pk))

Requests ==
    \/ \E a \in ConcUsers : CreateRequest(a)
    \/ \E a \in ConcUsers : StartChatRequest(a)
    \/ \E a \in ConcUsers, pk \in DOMAIN rentals : ConfirmRequest(a, pk)
    \/ \E a \in ConcUsers, pk \in DOMAIN rentals : PayRequest(a, pk)
    \/ \E a \in ConcUsers, pk \in DOMAIN rentals, r \in Reasons : RejectRequest(a, pk, r)
    \/ \E a \in ConcUsers, pk \in DOMAIN rentals : CompleteRequest(a, pk)
    \/ \E a \in ConcUsers, pk \in DOMAIN rentals, d \in ExtraDays : ExtendRequest(a, pk, d)
    \/ \E a \in ConcUsers, pk \in DOMAIN rentals : CancelRequest(a, pk)

Commits ==
    \E q \in inflight :
        \/ CreateCommit(q)
        \/ StartChatCommit(q)
        \/ ConfirmCommit(q)
        \/ PayCommit(q)
        \/ RejectCommit(q)
        \/ CompleteCommit(q)
        \/ ExtendCommit(q)
        \/ CancelCommit(q)

NextConc ==
    \/ Serves
    \/ Cardinality(inflight) < MaxInFlight /\ Requests
    \/ Commits

\* One item rented for two days at a time, its owner under the 70/30 agreement.
InitConc ==
    /\ InitTables
    /\ inventory = Item("m1", 50000, TRUE, 2, 2)
    /\ agreements = << Agreement(70, TRUE) >>

SpecConc == InitConc /\ [][NextConc]_vars

----------------------------------------------------------------------------
\* The create form on its own: the rentals table holds at most one rental of the
\* item, of any status and any window the item's period limits allow, and create
\* requests are served for every pair of dates.

MaxFormDay == 5
FormDays == 0..MaxFormDay

\* A rental of the item made earlier by client c1; an inquiry is the one-day,
\* zero-price row start_chat_by_inventory makes.
ExistingRental(inv, status, start, end) ==
    [client |-> "c1",
     manager |-> inv.manager,
     start_date |-> start,
     end_date |-> end,
     returned |-> status = "completed",
     total_price |-> IF status = "inquiry" THEN 0
                     ELSE inv.price_per_day * (end - start),
     deposit_paid |-> IF status = "inquiry" THEN 0 ELSE inv.deposit_amount,
     status |-> status,
     payment_status |-> IF status \in {"confirmed", "active", "completed"}
                        THEN "paid" ELSE "pending",
     rejection_reason |-> IF status = "rejected" THEN "damaged" ELSE ""]

\* The payment rental_create made for it (an inquiry has none).
ExistingPayments(row) ==
    IF row.status = "inquiry" THEN << >>
    ELSE << [rental |-> 1,
             amount |-> row.total_price + row.deposit_paid,
             status |-> IF row.payment_status = "paid" THEN "completed" ELSE "pending",
             paid |-> row.payment_status = "paid"] >>

\* Items rented for one or two days, or for two to ten days.
FormItems == { Item("m1", 50000, TRUE, 1, 2), Item("m1", 50000, TRUE, 2, 10) }

InitCreate ==
    /\ clients = [c \in Clients |-> [total_rentals |-> 0, loyalty_points |-> 0]]
    /\ owner = [total_earnings |-> 0]
    /\ agreements = << Agreement(70, TRUE) >>
    /\ inflight = {}
    /\ resp = Message("none", "none")
    /\ ChatIdle
    /\ inventory \in FormItems
    /\ \/ rentals = << >> /\ payments = << >>
       \/ \E status \in RentalStatuses, start \in FormDays, end \in FormDays :
            /\ IF status = "inquiry"
               THEN start = Today /\ end = Today + 1
               ELSE /\ end - start >= inventory.min_rental_days
                    /\ end - start <= inventory.max_rental_days
            /\ rentals = << ExistingRental(inventory, status, start, end) >>
            /\ payments = ExistingPayments(rentals[1])

NextCreate ==
    \E a \in Users, start \in FormDays, end \in FormDays :
        Serve(CreateFor(a, start, end))

SpecCreate == InitCreate /\ [][NextCreate]_vars

----------------------------------------------------------------------------
\* The approval pipeline of custom_admin/views.py and the owner's edit of
\* inventory/views.py, followed by the rentals of the item.  The views save the
\* row they read with no transaction block; each is served as one request.

\* inventory_create: the row of an item its owner has just submitted, with the
\* model's defaults for the fields the form does not have.
SubmittedItem ==
    [status |-> "pending", manager |-> None, price_per_day |-> 50000,
     deposit_amount |-> 0, min_rental_days |-> 2, max_rental_days |-> 2,
     total_rentals |-> 0, bank_account |-> TRUE, rejection_reason |-> ""]

\* user_passes_test(is_staff) and the guards of admin_inventory_approve and
\* admin_inventory_reject.
ModerateGuard(actor, inv) ==
    IF Role(actor) \notin {"manager", "administrator"} THEN "login"
    ELSE IF Role(actor) # "manager" THEN "forbidden"
    ELSE IF inv.status # "pending" THEN "already_processed"
    ELSE "ok"

\* admin_inventory_approve: the row the view read, saved with its three fields
\* set; a negative deposit is stored as 0.
ApproveReads(actor, deposit) ==
    Request("approve", actor, 0, NoRow, inventory, 0, deposit, 0)

ApproveApply(q) ==
    /\ inventory' = [q.inventory EXCEPT !.status = "awaiting_contract",
                                        !.manager = q.actor,
                                        !.deposit_amount =
                                            IF q.arg1 < 0 THEN 0 ELSE q.arg1]
    /\ resp' = Message("approve", "approved")
    /\ UNCHANGED <<rentals, payments, clients, owner, agreements>>

InventoryApprove(actor, deposit) ==
    LET g == ModerateGuard(actor, inventory)
    IN  IF g # "ok" THEN Reply("approve", g)
        ELSE ApproveApply(ApproveReads(actor, deposit))

\* admin_inventory_reject
ItemRejectReads(actor, reason) ==
    [Request("reject_item", actor, 0, NoRow, inventory, 0, 0, 0)
        EXCEPT !.reason = reason]

ItemRejectApply(q) ==
    /\ inventory' = [q.inventory EXCEPT !.status = "rejected",
                                        !.rejection_reason = q.reason]
    /\ resp' = Message("reject_item", "rejected")
    /\ UNCHANGED <<rentals, payments, clients, owner, agreements>>

InventoryReject(actor, reason) ==
    LET g == ModerateGuard(actor, inventory)
    IN  IF g # "ok" THEN Reply("reject_item", g)
        ELSE ItemRejectApply(ItemRejectReads(actor, reason))

\* user_passes_test(is_staff) and the guards of admin_inventory_publish.
PublishGuard(actor, inv) ==
    IF Role(actor) \notin {"manager", "administrator"} THEN "login"
    ELSE IF Role(actor) # "manager" THEN "forbidden"
    ELSE IF inv.status # "awaiting_contract" THEN "not_awaiting_contract"
    ELSE IF inv.manager # actor THEN "not_your_item"
    ELSE "ok"

\* admin_inventory_publish
PublishReads(actor) ==
    Request("publish", actor, 0, NoRow, inventory, 0, 0, 0)

PublishApply(q) ==
    /\ inventory' = [q.inventory EXCEPT !.status = "available"]
    /\ resp' = Message("publish", "published")
    /\ UNCHANGED <<rentals, payments, clients, owner, agreements>>

InventoryPublish(actor) ==
    LET g == PublishGuard(actor, inventory)
    IN  IF g # "ok" THEN Reply("publish", g)
        ELSE PublishApply(PublishReads(actor))

\* inventory_update: the owner of the item, a manager or an administrator saves
\* the form, which has no status field, over the row the view read.
UpdateGuard(actor) ==
    IF Role(actor) \notin {"owner", "manager", "administrator"} THEN "no_rights"
    ELSE "ok"

UpdateReads(actor, price) ==
    Request("update", actor, 0, NoRow, inventory, 0, price, 0)

\* form.save(): every column of the row is written, the status the view read
\* included.
UpdateApply(q) ==
    /\ inventory' = [q.inventory EXCEPT !.price_per_day = q.arg1]
    /\ resp' = Message("update", "updated")
    /\ UNCHANGED <<rentals, payments, clients, owner, agreements>>

\* The save of inventory_update inside `with transaction.atomic()`.
UpdateTransaction(q) == Atomic(q, UpdateApply(q))

InventoryUpdate(actor, price) ==
    LET g == UpdateGuard(actor)
    IN  IF g # "ok" THEN Reply("update", g)
        ELSE UpdateTransaction(UpdateReads(actor, price))

\* The item its owner has submitted, and the agreement with the owner.
InitInventory ==
    /\ InitTables
    /\ inventory = SubmittedItem
    /\ agreements = << Agreement(70, TRUE) >>

\* The pipeline views served concurrently: one request is held between the read
\* of the item and its save while another is served.
ApproveRequest(actor, deposit) ==
    ModerateGuard(actor, inventory) = "ok" /\ Admit(ApproveReads(actor, deposit))

ItemRejectRequest(actor, reason) ==
    ModerateGuard(actor, inventory) = "ok" /\ Admit(ItemRejectReads(actor, reason))

PublishRequest(actor) ==
    PublishGuard(actor, inventory) = "ok" /\ Admit(PublishReads(actor))

UpdateRequest(actor, price) ==
    UpdateGuard(actor) = "ok" /\ Admit(UpdateReads(actor, price))

\* The actors of the requests are two managers and the owner; a manager posts
\* a deposit with an approval, the owner a price with an edit.
NextPipeline ==
    \/ \E a \in {"m1", "m2", "o1"}, d \in {-100, 15000} :
         Overtake(InventoryApprove(a, d))
    \/ \E a \in {"m1", "m2", "o1"}, r \in Reasons : Overtake(InventoryReject(a, r))
    \/ \E a \in {"m1", "m2", "o1"} : Overtake(InventoryPublish(a))
    \/ \E a \in {"m1", "m2", "o1"}, p \in {50000, 9999} :
         Overtake(InventoryUpdate(a, p))
    \/ /\ Cardinality(inflight) < MaxInFlight
       /\ \/ \E a \in {"m1", "m2", "o1"}, d \in {-100, 15000} : ApproveRequest(a, d)
          \/ \E a \in {"m1", "m2", "o1"}, r \in Reasons : ItemRejectRequest(a, r)
          \/ \E a \in {"m1", "m2", "o1"} : PublishRequest(a)
          \/ \E a \in {"m1", "m2", "o1"}, p \in {50000, 9999} : UpdateRequest(a, p)
    \/ \E q \in inflight :
         \/ q.op = "approve" /\ ApproveApply(q) /\ Finish(q)
         \/ q.op = "reject_item" /\ ItemRejectApply(q) /\ Finish(q)
         \/ q.op = "publish" /\ PublishApply(q) /\ Finish(q)
         \/ q.op = "update" /\ UpdateTransaction(q) /\ Finish(q)

SpecPipeline == InitInventory /\ [][NextPipeline]_vars

----------------------------------------------------------------------------
\* The websocket consumers of chat/consumers.py.  The handlers of one consumer
\* run one after the other (connect, receive and disconnect are dispatched in
\* turn), so each handler is one action.

\* f'chat_{self.rental_id}' and f'user_{user_id}'
ChatGroup(rental_id) == "chat_" \o ToString(rental_id)
UserGroup(user) == "user_" \o user

\* The users a websocket may be opened by, and the rental ids of its URL: the ids
\* of the rentals and one that no rental has.
ChatUsers == Users \cup {Anonymous}
RentalIds == 1..(MaxRentals + 1)

\* The access check without the test that the rental is the client's own.
CheckAccessAnyClient(user, rental_id) ==
    IF rental_id \notin DOMAIN rentals
    THEN [has_access |-> FALSE, other_user_id |-> None]
    ELSE LET rental == rentals[rental_id]
         IN  IF Role(user) = "client"
             THEN [has_access |-> TRUE, other_user_id |-> rental.manager]
             ELSE IF Role(user) = "manager"
             THEN IF rental.manager = user
                  THEN [has_access |-> TRUE, other_user_id |-> rental.client]
                  ELSE [has_access |-> FALSE, other_user_id |-> None]
             ELSE IF Role(user) = "administrator"
             THEN [has_access |-> TRUE, other_user_id |-> None]
             ELSE [has_access |-> FALSE, other_user_id |-> None]

\* ChatConsumer._check_access: (has_access, other_user_id).
CheckAccess(user, rental_id) ==
    IF rental_id \notin DOMAIN rentals
    THEN [has_access |-> FALSE, other_user_id |-> None]
    ELSE LET rental == rentals[rental_id]
         IN  IF Role(user) = "client"
             THEN IF rental.client = user
                  THEN [has_access |-> TRUE, other_user_id |-> rental.manager]
                  ELSE [has_access |-> FALSE, other_user_id |-> None]
             ELSE IF Role(user) = "manager"
             THEN IF rental.manager = user
                  THEN [has_access |-> TRUE, other_user_id |-> rental.client]
                  ELSE [has_access |-> FALSE, other_user_id |-> None]
             ELSE IF Role(user) = "administrator"
             THEN [has_access |-> TRUE, other_user_id |-> None]
             ELSE [has_access |-> FALSE, other_user_id |-> None]

\* ChatConsumer._mark_messages_read: the table after the update.
MarkMessagesRead(user, rental_id) ==
    [i \in DOMAIN chat_messages |->
        IF /\ chat_messages[i].rental = rental_id
           /\ chat_messages[i].receiver = user
           /\ ~chat_messages[i].is_read
        THEN [chat_messages[i] EXCEPT !.is_read = TRUE]
        ELSE chat_messages[i]]

\* self.close() in connect: the handshake is refused and no attribute but user
\* and rental_id is set.
Refuse(s, consumer, user, rental_id) ==
    /\ sessions' = [sessions EXCEPT ![s] =
                       [@ EXCEPT !.consumer = consumer, !.user = user,
                                 !.rental_id = rental_id, !.state = "closed"]]
    /\ UNCHANGED <<groups, chat_messages, sent>>

\* ChatConsumer.connect
ChatConnect(s, user, rental_id) ==
    /\ sessions[s].state = "initial"
    /\ IF user = Anonymous THEN Refuse(s, "chat", user, rental_id)
       ELSE LET access == CheckAccess(user, rental_id)
            IN  IF ~access.has_access THEN Refuse(s, "chat", user, rental_id)
                ELSE /\ sessions' = [sessions EXCEPT ![s] =
                                        [@ EXCEPT !.consumer = "chat",
                                                  !.user = user,
                                                  !.rental_id = rental_id,
                                                  !.other_user_id = access.other_user_id,
                                                  !.group = ChatGroup(rental_id),
                                                  !.state = "joined"]]
                     /\ groups' = groups \cup {<<ChatGroup(rental_id), s>>}
                     /\ chat_messages' = MarkMessagesRead(user, rental_id)
                     /\ UNCHANGED sent
    /\ UNCHANGED <<db, inflight, resp>>

\* NotificationConsumer.connect
NotificationConnect(s, user) ==
    /\ sessions[s].state = "initial"
    /\ IF user = Anonymous THEN Refuse(s, "notifications", user, 0)
       ELSE /\ sessions' = [sessions EXCEPT ![s] =
                               [@ EXCEPT !.consumer = "notifications",
                                         !.user = user,
                                         !.group = UserGroup(user),
                                         !.state = "joined"]]
            /\ groups' = groups \cup {<<UserGroup(user), s>>}
            /\ UNCHANGED <<chat_messages, sent>>
    /\ UNCHANGED <<db, inflight, resp>>

\* A group_discard that removes nothing.
GroupDiscardNothing(group, s) == groups

\* channel_layer.group_discard(group, channel): the channel leaves the group; a
\* channel that is not in the group leaves nothing.
GroupDiscard(group, s) == groups \ {<<group, s>>}

\* disconnect without the hasattr test: a consumer that never joined has no
\* group attribute to read, and the handler raises.
DisconnectWithoutTest(s) ==
    /\ sessions[s].state \notin {"initial", "persisted", "broadcast"}
    /\ sessions[s].disconnects < MaxDisconnects
    /\ IF sessions[s].group # None
       THEN /\ groups' = GroupDiscard(sessions[s].group, s)
            /\ sessions' = [sessions EXCEPT ![s].state = "closed",
                                            ![s].disconnects = @ + 1]
       ELSE /\ groups' = groups
            /\ sessions' = [sessions EXCEPT ![s].state = "failed",
                                            ![s].disconnects = @ + 1]
    /\ UNCHANGED <<chat_messages, sent, db, inflight, resp>>

\* ChatConsumer.disconnect and NotificationConsumer.disconnect, called when the
\* socket closes, whether or not connect accepted it; a consumer that is inside
\* its receive handler takes the disconnect after the handler has returned.
Disconnect(s) ==
    /\ sessions[s].state \notin {"initial", "persisted", "broadcast"}
    /\ sessions[s].disconnects < MaxDisconnects
    /\ groups' = IF sessions[s].group # None
                 THEN GroupDiscard(sessions[s].group, s)
                 ELSE groups
    /\ sessions' = [sessions EXCEPT ![s].state = "closed",
                                    ![s].disconnects = @ + 1]
    /\ UNCHANGED <<chat_messages, sent, db, inflight, resp>>

ChatDisconnect(s) == sessions[s].consumer = "chat" /\ Disconnect(s)
NotificationDisconnect(s) == sessions[s].consumer = "notifications" /\ Disconnect(s)

----------------------------------------------------------------------------
\* ChatConsumer.receive

\* A JSON value: its type and, for a string, its characters.
JsonNull == [type |-> "null", chars |-> << >>]
JsonNumber == [type |-> "number", chars |-> << >>]
JsonString(chars) == [type |-> "string", chars |-> chars]

\* The text frames a client sends; "" is a frame without text_data.
Frames ==
    { "", "hi", "[1]", "{}", "{\"message\": null}", "{\"message\": 5}",
      "{\"message\": \"  \"}", "{\"message\": \" hi \"}" }

\* json.loads(text_data): ok is FALSE for JSONDecodeError; of an object only the
\* member "message" is kept, absent when the object has none.
JsonLoads(text_data) ==
    CASE text_data = "[1]" ->
            [ok |-> TRUE, type |-> "array", has_message |-> FALSE, message |-> JsonNull]
      [] text_data = "{}" ->
            [ok |-> TRUE, type |-> "object", has_message |-> FALSE, message |-> JsonNull]
      [] text_data = "{\"message\": null}" ->
            [ok |-> TRUE, type |-> "object", has_message |-> TRUE, message |-> JsonNull]
      [] text_data = "{\"message\": 5}" ->
            [ok |-> TRUE, type |-> "object", has_message |-> TRUE, message |-> JsonNumber]
      [] text_data = "{\"message\": \"  \"}" ->
            [ok |-> TRUE, type |-> "object", has_message |-> TRUE,
             message |-> JsonString(<<" ", " ">>)]
      [] text_data = "{\"message\": \" hi \"}" ->
            [ok |-> TRUE, type |-> "object", has_message |-> TRUE,
             message |-> JsonString(<<" ", "h", "i", " ">>)]
      [] OTHER ->
            [ok |-> FALSE, type |-> "none", has_message |-> FALSE, message |-> JsonNull]

\* str.strip()
RECURSIVE StripLeft(_)
StripLeft(chars) ==
    IF chars # << >> /\ Head(chars) = " " THEN StripLeft(Tail(chars)) ELSE chars

RECURSIVE StripRight(_)
StripRight(chars) ==
    IF chars # << >> /\ chars[Len(chars)] = " "
    THEN StripRight(SubSeq(chars, 1, Len(chars) - 1))
    ELSE chars

Strip(chars) == StripRight(StripLeft(chars))

\* bool(value) of a JSON value: None, an empty string and (of the numbers sent)
\* none are false.
Truthy(value) ==
    \/ value.type = "number"
    \/ value.type = "string" /\ value.chars # << >>

\* What receive does with a frame: "drop" (a return before anything is written),
\* "raise" (data.get on a value that is no dict, or .strip() on a value that is
\* no str: AttributeError), or "send".
ReceiveOutcome(session, text_data) ==
    LET data == JsonLoads(text_data)
        value == IF data.has_message /\ Truthy(data.message)
                 THEN data.message ELSE JsonString(<< >>)
    IN  IF Role(session.user) = "administrator" THEN "drop"
        ELSE IF text_data = "" THEN "drop"
        ELSE IF ~data.ok THEN "drop"
        ELSE IF data.type # "object" THEN "raise"
        ELSE IF value.type # "string" THEN "raise"
        ELSE IF Strip(value.chars) = << >> THEN "drop"
        ELSE IF session.other_user_id = None THEN "drop"
        ELSE "send"

\* (data.get('message') or '').strip() of a frame that is sent.
MessageText(text_data) == Strip(JsonLoads(text_data).message.chars)

\* The events of receive for the message with the given id.
RoomEvent(message) == [type |-> "chat.message", message |-> message]
NotifyEvent(message) == [type |-> "notify.message", message |-> message]

\* A group_send that reaches every session, whatever group it is in.
GroupSendToAll(ss, group, event) ==
    [t \in DOMAIN ss |-> [ss[t] EXCEPT !.inbox = Append(@, event)]]

\* A group_send that reaches one member of the group only.
GroupSendToFirst(ss, group, event) ==
    [t \in DOMAIN ss |->
        IF <<group, t>> \in groups /\ \A u \in DOMAIN ss : <<group, u>> \in groups => t <= u
        THEN [ss[t] EXCEPT !.inbox = Append(@, event)]
        ELSE ss[t]]

\* channel_layer.group_send(group, event): the event is put on the channel of
\* every session that is in the group now; ss is the sessions before the call.
GroupSend(ss, group, event) ==
    [t \in DOMAIN ss |->
        IF <<group, t>> \in groups
        THEN [ss[t] EXCEPT !.inbox = Append(@, event)]
        ELSE ss[t]]

\* ChatConsumer._create_message
NewChatMessage(session, text) ==
    [rental |-> session.rental_id,
     sender |-> session.user,
     receiver |-> session.other_user_id,
     message_text |-> text,
     message_type |-> "text",
     is_read |-> FALSE]

ChatReceive(s, text_data) ==
    /\ sessions[s].consumer = "chat"
    /\ sessions[s].state = "joined"
    /\ LET outcome == ReceiveOutcome(sessions[s], text_data)
       IN  CASE outcome = "drop" ->
                  UNCHANGED <<sessions, groups, chat_messages, sent>>
             [] outcome = "raise" ->
                  /\ sessions' = [sessions EXCEPT ![s].state = "failed"]
                  /\ UNCHANGED <<groups, chat_messages, sent>>
             [] outcome = "send" ->
                  /\ Len(chat_messages) < MaxMessages
                  /\ chat_messages' = Append(chat_messages,
                                             NewChatMessage(sessions[s],
                                                            MessageText(text_data)))
                  /\ sent' = sent \o
                       << [group |-> sessions[s].group, type |-> "chat.message",
                           message |-> Len(chat_messages) + 1],
                          [group |-> UserGroup(sessions[s].other_user_id),
                           type |-> "notify.message",
                           message |-> Len(chat_messages) + 1] >>
                  /\ sessions' =
                       GroupSend(GroupSend(sessions, sessions[s].group,
                                           RoomEvent(Len(chat_messages) + 1)),
                                 UserGroup(sessions[s].other_user_id),
                                 NotifyEvent(Len(chat_messages) + 1))
                  /\ UNCHANGED groups
    /\ UNCHANGED <<db, inflight, resp>>

\* The consumer takes the next event from its channel and calls the handler
\* named by the event's type, which sends the event to the socket.  A consumer
\* that is inside another handler, has stopped or has failed takes none.
Handle(s, type) ==
    /\ sessions[s].state = "joined"
    /\ sessions[s].inbox # << >>
    /\ Head(sessions[s].inbox).type = type
    /\ sessions' = [sessions EXCEPT ![s].inbox = Tail(@),
                                    ![s].socket = Append(@, Head(sessions[s].inbox))]
    /\ UNCHANGED <<groups, chat_messages, sent, db, inflight, resp>>

\* ChatConsumer.chat_message
ChatMessage(s) == sessions[s].consumer = "chat" /\ Handle(s, "chat.message")

\* NotificationConsumer.notify_message and ChatConsumer.notify_message
NotifyMessage(s) ==
    /\ sessions[s].consumer \in {"chat", "notifications"}
    /\ Handle(s, "notify.message")

\* Two pending rentals of the item: days 1-3 by client c1, with a manager, and
\* day 3-4 by client c2, made while the item had no manager.
InitChat ==
    /\ inventory = Item("m1", 50000, TRUE, 1, 2)
    /\ \E m \in Managers :
         rentals = << ExistingRental([inventory EXCEPT !.manager = m], "pending", 1, 3),
                      [ExistingRental([inventory EXCEPT !.manager = None],
                                      "pending", 3, 4) EXCEPT !.client = "c2"] >>
    /\ payments = [pk \in 1..2 |->
                      [rental |-> pk,
                       amount |-> rentals[pk].total_price + rentals[pk].deposit_paid,
                       status |-> "pending",
                       paid |-> FALSE]]
    /\ clients = [c \in Clients |-> [total_rentals |-> 0, loyalty_points |-> 0]]
    /\ owner = [total_earnings |-> 0]
    /\ agreements = << Agreement(70, TRUE) >>
    /\ inflight = {}
    /\ resp = Message("none", "none")
    /\ ChatIdle

NextChat ==
    \/ \E s \in SessionIds, u \in ChatUsers, r \in RentalIds : ChatConnect(s, u, r)
    \/ \E s \in SessionIds, u \in ChatUsers : NotificationConnect(s, u)
    \/ \E s \in SessionIds, f \in Frames : ChatReceive(s, f)
    \/ \E s \in SessionIds : ChatMessage(s)
    \/ \E s \in SessionIds : NotifyMessage(s)
    \/ \E s \in SessionIds : ChatDisconnect(s)
    \/ \E s \in SessionIds : NotificationDisconnect(s)

SpecChat == InitChat /\ [][NextChat]_vars

----------------------------------------------------------------------------
\* ChatConsumer.receive among other consumers.  Each consumer runs its handlers
\* one after the other, but the consumers run side by side: while one waits for
\* _create_message or for a group_send, the others go on.  receive is three
\* steps: up to the return of _create_message, the group_send to the room, and
\* the group_send to the counterparty's group.

MaxTabs == 3
MaxOrderMessages == 2

\* The notification without the send when the counterparty is in the room.
ReceiveNotifyUnlessInRoom(s) ==
    /\ sessions[s].state = "broadcast"
    /\ LET other == sessions[s].other_user_id
           done == [sessions EXCEPT ![s].state = "joined", ![s].message = 0]
       IN  sessions' =
             IF \E t \in DOMAIN sessions :
                    <<sessions[s].group, t>> \in groups /\ sessions[t].user = other
             THEN done
             ELSE GroupSend(done, UserGroup(other), NotifyEvent(sessions[s].message))
    /\ sent' = Append(sent, [group |-> UserGroup(sessions[s].other_user_id),
                             type |-> "notify.message",
                             message |-> sessions[s].message])
    /\ UNCHANGED <<groups, chat_messages, db, inflight, resp>>

\* receive up to the return of _create_message; at most max messages are sent.
ReceivePersist(s, text_data, max) ==
    /\ sessions[s].consumer = "chat"
    /\ sessions[s].state = "joined"
    /\ LET outcome == ReceiveOutcome(sessions[s], text_data)
       IN  CASE outcome = "drop" ->
                  UNCHANGED <<sessions, chat_messages>>
             [] outcome = "raise" ->
                  /\ sessions' = [sessions EXCEPT ![s].state = "failed"]
                  /\ UNCHANGED chat_messages
             [] outcome = "send" ->
                  /\ Len(chat_messages) < max
                  /\ chat_messages' = Append(chat_messages,
                                             NewChatMessage(sessions[s],
                                                            MessageText(text_data)))
                  /\ sessions' = [sessions EXCEPT ![s].state = "persisted",
                                                  ![s].message = Len(chat_messages) + 1]
    /\ UNCHANGED <<groups, sent, db, inflight, resp>>

\* _serialize_message and the group_send to the room.
ReceiveBroadcast(s) ==
    /\ sessions[s].state = "persisted"
    /\ sessions' = GroupSend([sessions EXCEPT ![s].state = "broadcast"],
                             sessions[s].group, RoomEvent(sessions[s].message))
    /\ sent' = Append(sent, [group |-> sessions[s].group, type |-> "chat.message",
                             message |-> sessions[s].message])
    /\ UNCHANGED <<groups, chat_messages, db, inflight, resp>>

\* The group_send to the counterparty's group, and the return of receive.
ReceiveNotify(s) ==
    /\ sessions[s].state = "broadcast"
    /\ sessions' = GroupSend([sessions EXCEPT ![s].state = "joined", ![s].message = 0],
                             UserGroup(sessions[s].other_user_id),
                             NotifyEvent(sessions[s].message))
    /\ sent' = Append(sent, [group |-> UserGroup(sessions[s].other_user_id),
                             type |-> "notify.message",
                             message |-> sessions[s].message])
    /\ UNCHANGED <<groups, chat_messages, db, inflight, resp>>

\* The sessions S, opened by the users U for the rentals R, that receive the
\* frames F, and at most max messages.
Exchange(S, U, R, F, max) ==
    \/ \E s \in S, u \in U, r \in R : ChatConnect(s, u, r)
    \/ \E s \in S, u \in U : NotificationConnect(s, u)
    \/ \E s \in S, f \in F : ReceivePersist(s, f, max)
    \/ \E s \in S : ReceiveBroadcast(s)
    \/ \E s \in S : ReceiveNotify(s)
    \/ \E s \in S : ChatMessage(s)
    \/ \E s \in S : NotifyMessage(s)
    \/ \E s \in S : ChatDisconnect(s)
    \/ \E s \in S : NotificationDisconnect(s)

\* Two pending rentals of the item, of clients c1 and c2, both with manager m1,
\* and the sessions S, none of them connected.
InitExchange(S) ==
    /\ inventory = Item("m1", 50000, TRUE, 1, 2)
    /\ rentals = << ExistingRental(inventory, "pending", 1, 3),
                    [ExistingRental(inventory, "pending", 3, 4) EXCEPT !.client = "c2"] >>
    /\ payments = [pk \in 1..2 |->
                      [rental |-> pk,
                       amount |-> rentals[pk].total_price + rentals[pk].deposit_paid,
                       status |-> "pending",
                       paid |-> FALSE]]
    /\ clients = [c \in Clients |-> [total_rentals |-> 0, loyalty_points |-> 0]]
    /\ owner = [total_earnings |-> 0]
    /\ agreements = << Agreement(70, TRUE) >>
    /\ inflight = {}
    /\ resp = Message("none", "none")
    /\ sessions = [s \in S |-> NewSession]
    /\ groups = {}
    /\ chat_messages = << >>
    /\ sent = << >>

\* Three sockets of the clients and the manager, a blank and a text frame, one
\* message.
NextDelivery ==
    Exchange(1..MaxTabs, {"c1", "c2", "m1"}, 1..MaxRentals,
             { "{}", "{\"message\": \" hi \"}" }, MaxMessages)

SpecDelivery == InitExchange(1..MaxTabs) /\ [][NextDelivery]_vars

\* Two sockets of client c1 and manager m1 for rental 1, and two messages.
NextOrder ==
    Exchange(SessionIds, {"c1", "m1"}, {1}, {"{\"message\": \" hi \"}"},
             MaxOrderMessages)

SpecOrder == InitExchange(SessionIds) /\ [][NextOrder]_vars

----------------------------------------------------------------------------
\* The chat of a rental while the rental is paid and confirmed: the consumers,
\* the chat page of chat/views.py, and rental_pay and rental_confirm.

\* chat_detail, a POST of the message form with the text "hi": the access check
\* on the rental as it is now, the messages to the user marked read, and the
\* message saved and sent to the room and to the counterparty's group.
ChatDetailPost(user, rental_id) ==
    LET access == CheckAccess(user, rental_id)
        read == MarkMessagesRead(user, rental_id)
        row == [rental |-> rental_id, sender |-> user,
                receiver |-> access.other_user_id, message_text |-> <<"h", "i">>,
                message_type |-> "text", is_read |-> FALSE]
    IN  /\ IF ~access.has_access
           THEN /\ resp' = Message("chat", "no_access")
                /\ UNCHANGED <<sessions, chat_messages, sent>>
           ELSE IF Role(user) = "administrator" \/ access.other_user_id = None
           THEN /\ resp' = Message("chat", "failed")
                /\ chat_messages' = read
                /\ UNCHANGED <<sessions, sent>>
           ELSE /\ Len(chat_messages) < MaxMessages
                /\ resp' = Message("chat", "none")
                /\ chat_messages' = Append(read, row)
                /\ sessions' =
                     GroupSend(GroupSend(sessions, ChatGroup(rental_id),
                                         RoomEvent(Len(chat_messages) + 1)),
                               UserGroup(access.other_user_id),
                               NotifyEvent(Len(chat_messages) + 1))
                /\ sent' = sent \o
                     << [group |-> ChatGroup(rental_id), type |-> "chat.message",
                         message |-> Len(chat_messages) + 1],
                        [group |-> UserGroup(access.other_user_id),
                         type |-> "notify.message",
                         message |-> Len(chat_messages) + 1] >>
        /\ UNCHANGED <<groups, db, inflight>>

\* The users of the chat of rental 1 are its client and the two managers.
NextReassign ==
    \/ \E s \in SessionIds, u \in {"c1", "m1", "m2"} : ChatConnect(s, u, 1)
    \/ \E s \in SessionIds : ChatReceive(s, "{\"message\": \" hi \"}")
    \/ \E s \in SessionIds : ChatMessage(s)
    \/ \E s \in SessionIds : ChatDisconnect(s)
    \/ \E u \in {"c1", "m1", "m2"} : ChatDetailPost(u, 1)
    \/ \E a \in {"c1", "m1", "m2"} : Serve(Pay(a, 1))
    \/ \E a \in {"c1", "m1", "m2"} : Serve(Confirm(a, 1))

SpecReassign == InitChat /\ [][NextReassign]_vars

----------------------------------------------------------------------------
\* Properties of the rental lifecycle.

\* C1: in every reachable state, also after two create requests served
\* concurrently, any two distinct rentals of the item whose statuses are both in
\* {pending, confirmed, active} have disjoint intervals [start_date, end_date).
C1_NoDoubleBooking ==
    \A i \in DOMAIN rentals, j \in DOMAIN rentals :
        (/\ i # j
         /\ rentals[i].status \in ActiveStatuses
         /\ rentals[j].status \in ActiveStatuses)
        => (rentals[i].end_date <= rentals[j].start_date
            \/ rentals[j].end_date <= rentals[i].start_date)

\* C2: a confirm request by a manager on a pending rental that is not paid is
\* rejected, leaving the rental's status, manager and payment_status and the
\* inventory status as they were; a rental moves to confirmed only from a state
\* in which its payment_status is paid.
C2_ConfirmNeedsPayment ==
    [][ /\ resp'.op = "confirm" =>
             \A a \in Managers, pk \in DOMAIN rentals :
                 (/\ rentals[pk].status = "pending"
                  /\ rentals[pk].payment_status # "paid"
                  /\ Confirm(a, pk))
                 => (/\ resp'.level = "warning"
                     /\ rentals'[pk].status = rentals[pk].status
                     /\ rentals'[pk].manager = rentals[pk].manager
                     /\ rentals'[pk].payment_status = rentals[pk].payment_status
                     /\ inventory'.status = inventory.status)
        /\ \A pk \in DOMAIN rentals :
             (rentals[pk].status # "confirmed" /\ rentals'[pk].status = "confirmed")
             => rentals[pk].payment_status = "paid" ]_vars

\* A confirm was just refused with a warning while every rental is pending and
\* not paid.
C2_Witness ==
    /\ resp = Message("confirm", "not_paid")
    /\ rentals # << >>
    /\ \A pk \in DOMAIN rentals :
         rentals[pk].status = "pending" /\ rentals[pk].payment_status # "paid"

\* C3: once a rental's status is completed, cancelled or rejected, no request, in
\* any interleaving with other requests, changes that status again.
C3_TerminalStatusIsFinal ==
    [][ \A pk \in DOMAIN rentals :
            rentals[pk].status \in TerminalStatuses
            => rentals'[pk].status = rentals[pk].status ]_vars

\* The writes of rental_complete on rental pk, its inventory and its client.
CompletionApplied(pk) ==
    LET c == rentals[pk].client
    IN  /\ rentals'[pk].status = "completed"
        /\ rentals'[pk].returned
        /\ inventory'.status = "available"
        /\ inventory'.total_rentals = inventory.total_rentals + 1
        /\ clients'[c].total_rentals = clients[c].total_rentals + 1
        /\ clients'[c].loyalty_points = clients[c].loyalty_points + 10

\* C4: a complete request on a confirmed or active rental either applies all of
\* its effects (status completed, return date set, inventory available, inventory
\* and client rental counters + 1, loyalty points + 10) or none of them.
C4_CompletionAllOrNothing ==
    [][ resp'.op = "complete" =>
            \A a \in Managers, pk \in DOMAIN rentals :
                (rentals[pk].status \in {"confirmed", "active"} /\ Complete(a, pk))
                => \/ CompletionApplied(pk)
                   \/ /\ rentals'[pk] = rentals[pk]
                      /\ inventory' = inventory
                      /\ clients' = clients
                      /\ owner' = owner ]_vars

\* A complete request was just served with a payout and its effects are there.
C4_Witness ==
    /\ resp = Message("complete", "paid_owner")
    /\ \E pk \in DOMAIN rentals :
         /\ rentals[pk].status = "completed"
         /\ rentals[pk].returned
         /\ clients[rentals[pk].client].loyalty_points = 10
         /\ clients[rentals[pk].client].total_rentals = 1
    /\ inventory.status = "available"
    /\ inventory.total_rentals = 1

\* The owner_percentage of the most recently created agreement that is accepted.
LatestAcceptedPercentage ==
    LET accepted == { i \in DOMAIN agreements : agreements[i].is_accepted }
        latest == CHOOSE i \in accepted : \A j \in accepted : j <= i
    IN  agreements[latest].owner_percentage

\* A complete request by manager a that completes rental pk and pays the owner.
PaidCompletion(a, pk) ==
    /\ rentals[pk].status \in {"confirmed", "active"}
    /\ inventory.bank_account
    /\ \E i \in DOMAIN agreements : agreements[i].is_accepted
    /\ Complete(a, pk)
    /\ rentals'[pk].status = "completed"

\* The increase of owner.total_earnings minus total_price * p / 100, in 1/100
\* kopeck.
PayoutError(pk) ==
    100 * (owner'.total_earnings - owner.total_earnings)
    - rentals[pk].total_price * LatestAcceptedPercentage

\* C5: when a rental is completed, its inventory has a bank account and the
\* owner has an accepted agreement, owner.total_earnings increases by exactly
\* total_price * p / 100, p the owner_percentage of the most recently created
\* accepted agreement.
C5_PayoutExact ==
    [][ resp'.op = "complete" =>
            \A a \in Managers, pk \in DOMAIN rentals :
                PaidCompletion(a, pk) => PayoutError(pk) = 0 ]_vars

\* C5, as the code has it: the increase is total_price * p / 100 rounded to the
\* nearest kopeck (exact whenever that amount is a whole number of kopecks), p
\* the owner_percentage of the most recently created accepted agreement.
C5_PayoutRounded ==
    [][ resp'.op = "complete" =>
            \A a \in Managers, pk \in DOMAIN rentals :
                PaidCompletion(a, pk)
                => (PayoutError(pk) >= -50 /\ PayoutError(pk) <= 50) ]_vars

\* A rental of one day at 99.99 was completed under the agreements 50 (accepted),
\* 70 (accepted, newer), 100 (not accepted): the owner got 69.99 of 69.993.
C5_Witness ==
    /\ resp = Message("complete", "paid_owner")
    /\ Len(agreements) = 3
    /\ owner.total_earnings = 6999
    /\ \E pk \in DOMAIN rentals :
         rentals[pk].status = "completed" /\ rentals[pk].total_price = 9999

\* C6: a completion without an accepted agreement or without a bank account on
\* the inventory leaves owner.total_earnings as it was and still applies the
\* completion effects to the rental, the inventory and the client.
C6_PayoutSkipped ==
    [][ resp'.op = "complete" =>
            \A a \in Managers, pk \in DOMAIN rentals :
                (/\ rentals[pk].status \in {"confirmed", "active"}
                 /\ (~inventory.bank_account
                     \/ \A i \in DOMAIN agreements : ~agreements[i].is_accepted)
                 /\ Complete(a, pk))
                => (/\ owner' = owner
                    /\ (resp'.level = "error" \/ CompletionApplied(pk))) ]_vars

\* A rental of an item without a bank account is completed, its client has the
\* points, and the owner has earned nothing.
C6_Witness ==
    /\ resp = Message("complete", "no_bank_account")
    /\ ~inventory.bank_account
    /\ inventory.total_rentals = 1
    /\ owner.total_earnings = 0
    /\ \E pk \in DOMAIN rentals :
         /\ rentals[pk].status = "completed"
         /\ clients[rentals[pk].client].loyalty_points = 10

\* C7: confirm, reject or pay on a rental that is not pending, pay on a paid
\* rental, complete on a rental that is not confirmed or active, cancel on a
\* rental that is not pending or confirmed: no row of any table changes.
C7_IllegalTransitionIsNoOp ==
    [][ LET Illegal(a, pk) ==
                \/ rentals[pk].status # "pending" /\ Confirm(a, pk)
                \/ rentals[pk].status # "pending" /\ \E r \in Reasons : Reject(a, pk, r)
                \/ rentals[pk].status # "pending" /\ Pay(a, pk)
                \/ rentals[pk].payment_status = "paid" /\ Pay(a, pk)
                \/ rentals[pk].status \notin {"confirmed", "active"} /\ Complete(a, pk)
                \/ rentals[pk].status \notin {"pending", "confirmed"} /\ Cancel(a, pk)
        IN  UNCHANGED db
            \/ \A a \in Users, pk \in DOMAIN rentals : ~Illegal(a, pk) ]_vars

\* A cancel of the only rental, which is completed, was just refused.
C7_Witness ==
    /\ resp = Message("cancel", "cannot_cancel")
    /\ Len(rentals) = 1
    /\ rentals[1].status = "completed"

\* C8: in every step of every execution a rental's status stays or changes along
\* one of the edges pending -> confirmed, rejected, cancelled; confirmed ->
\* active, completed, cancelled; active -> completed.
C8_StatusFollowsEdges ==
    [][ \A pk \in DOMAIN rentals :
            rentals'[pk].status # rentals[pk].status
            => <<rentals[pk].status, rentals'[pk].status>> \in
                   { <<"pending", "confirmed">>, <<"pending", "rejected">>,
                     <<"pending", "cancelled">>, <<"confirmed", "active">>,
                     <<"confirmed", "completed">>, <<"confirmed", "cancelled">>,
                     <<"active", "completed">> } ]_vars

\* C9: a confirm of a pending, paid rental by manager a either sets the rental
\* confirmed with manager a and the inventory rented in one step, or fails and
\* leaves the rental and the inventory as they were.
C9_ConfirmAtomic ==
    [][ resp'.op = "confirm" =>
            \A a \in Managers, pk \in DOMAIN rentals :
                (/\ rentals[pk].status = "pending"
                 /\ rentals[pk].payment_status = "paid"
                 /\ Confirm(a, pk))
                => \/ /\ resp'.level = "success"
                      /\ rentals'[pk].status = "confirmed"
                      /\ rentals'[pk].manager = a
                      /\ inventory'.status = "rented"
                   \/ /\ resp'.level = "error"
                      /\ rentals'[pk] = rentals[pk]
                      /\ inventory' = inventory ]_vars

\* Manager m2 just confirmed a rental of the item: it is theirs and the item is
\* rented.
C9_Witness ==
    /\ resp = Message("confirm", "confirmed")
    /\ inventory.status = "rented"
    /\ \E pk \in DOMAIN rentals :
         rentals[pk].status = "confirmed" /\ rentals[pk].manager = "m2"

\* C10: a successful cancel of a pending or confirmed rental sets its status to
\* cancelled and nothing else of it, makes a rented inventory available and
\* leaves any other inventory status, and changes no counter, payment or
\* earnings.
C10_CancelFrame ==
    [][ resp' = Message("cancel", "cancelled") =>
            \A a \in Users, pk \in DOMAIN rentals :
                (rentals[pk].status \in {"pending", "confirmed"} /\ Cancel(a, pk))
                => (/\ rentals' = [rentals EXCEPT ![pk].status = "cancelled"]
                    /\ inventory' = IF inventory.status = "rented"
                                    THEN [inventory EXCEPT !.status = "available"]
                                    ELSE inventory
                    /\ UNCHANGED <<payments, clients, owner, agreements>>) ]_vars

\* The only rental, confirmed by m2, was just cancelled and the item is
\* available again.
C10_Witness ==
    /\ resp = Message("cancel", "cancelled")
    /\ Len(rentals) = 1
    /\ rentals[1].status = "cancelled"
    /\ rentals[1].manager = "m2"
    /\ rentals[1].payment_status = "paid"
    /\ inventory.status = "available"
    /\ inventory.total_rentals = 0

\* C11: confirm, reject, complete and extend by an actor who is not a manager,
\* pay by anyone but the client who owns the rental, and cancel by a client who
\* does not own the rental or by an owner change no row of any table.
C11_UnauthorizedChangesNothing ==
    [][ LET Unauthorized(a, pk) ==
                \/ /\ Role(a) # "manager"
                   /\ \/ Confirm(a, pk)
                      \/ \E r \in Reasons : Reject(a, pk, r)
                      \/ Complete(a, pk)
                      \/ \E d \in ExtraDays : Extend(a, pk, d)
                \/ /\ ~(Role(a) = "client" /\ rentals[pk].client = a)
                   /\ Pay(a, pk)
                \/ /\ \/ Role(a) = "client" /\ rentals[pk].client # a
                      \/ Role(a) = "owner"
                   /\ Cancel(a, pk)
        IN  UNCHANGED db
            \/ \A a \in Users, pk \in DOMAIN rentals : ~Unauthorized(a, pk) ]_vars

\* A pay request was just refused with an error while the only rental, of client
\* c1, is pending and not paid, and its payment is still pending.
C11_Witness ==
    /\ resp = Message("pay", "no_access")
    /\ Len(rentals) = 1
    /\ rentals[1].client = "c1"
    /\ rentals[1].status = "pending"
    /\ rentals[1].payment_status = "pending"
    /\ payments[1].status = "pending"

\* The dates start and end pass every validation of the create form other than
\* the availability check.
DatesValid(start, end) ==
    /\ start >= Today
    /\ end > start
    /\ end - start >= inventory.min_rental_days
    /\ end - start <= inventory.max_rental_days

\* C12: a create request by a client whose dates pass the other validations is
\* rejected exactly when some rental of the item with status pending, confirmed
\* or active has start_date < end and end_date > start; a window that starts on
\* the end date of a booking is accepted, and rentals with status inquiry,
\* completed, cancelled or rejected never block.  A rejected request writes
\* nothing, an accepted one inserts the rental with the requested dates.
C12_RejectedIffOverlap ==
    [][ resp'.op = "create" =>
            \A a \in Clients, start \in FormDays, end \in FormDays :
                (/\ inventory.status = "available"
                 /\ DatesValid(start, end)
                 /\ CreateFor(a, start, end))
                => LET blocked ==
                           \E i \in DOMAIN rentals :
                               /\ rentals[i].status \in {"pending", "confirmed", "active"}
                               /\ rentals[i].start_date < end
                               /\ rentals[i].end_date > start
                   IN  /\ (resp'.level = "invalid") <=> blocked
                       /\ blocked => UNCHANGED db
                       /\ ~blocked =>
                             \/ /\ resp'.level = "success"
                                /\ Len(rentals') = Len(rentals) + 1
                                /\ rentals'[Len(rentals')].start_date = start
                                /\ rentals'[Len(rentals')].end_date = end
                             \/ resp'.level = "error" /\ UNCHANGED db ]_vars

\* A request for days 3-5 was accepted next to an active rental of days 1-3.
C12_Witness ==
    /\ resp = Message("create", "created")
    /\ Len(rentals) = 2
    /\ rentals[1].status = "active"
    /\ rentals[1].start_date = 1 /\ rentals[1].end_date = 3
    /\ rentals[2].status = "pending"
    /\ rentals[2].start_date = 3 /\ rentals[2].end_date = 5

\* C13: a create request whose start date is in the past, whose end date is not
\* after its start date, or whose length in days is below min_rental_days or
\* above max_rental_days is rejected, and no Rental and no Payment is created.
C13_BadDatesRejected ==
    [][ LET BadDates(start, end) ==
                \/ start < Today
                \/ end <= start
                \/ end - start < inventory.min_rental_days
                \/ end - start > inventory.max_rental_days
        IN  /\ (/\ resp'.op = "create"
                /\ \/ resp'.level \notin {"invalid", "error"}
                   \/ rentals' # rentals
                   \/ payments' # payments)
               => \A a \in Users, start \in FormDays, end \in FormDays :
                      BadDates(start, end) => ~CreateFor(a, start, end)
            /\ resp' = Message("create", "failed")
               => \A a \in Clients, start \in FormDays, end \in FormDays :
                      (inventory.status = "available" /\ BadDates(start, end))
                      => ~CreateFor(a, start, end) ]_vars

\* A create request for an item rented for two to ten days was just rejected by
\* the form, and there is still no rental and no payment.
C13_Witness ==
    /\ resp = Message("create", "min_period")
    /\ inventory.min_rental_days = 2
    /\ inventory.max_rental_days = 10
    /\ rentals = << >>
    /\ payments = << >>

\* C14: an extend request by a manager with N > 0 days on a confirmed or active
\* rental moves end_date by N days and sets payment_status to delayed, whatever
\* other bookings there are; with N <= 0, or on a completed, cancelled or
\* rejected rental, it changes nothing.
C14_ExtendApplies ==
    [][ resp'.op = "extend" =>
            \A a \in Managers, pk \in DOMAIN rentals, d \in ExtraDays :
                Extend(a, pk, d)
                => IF d > 0 /\ rentals[pk].status \in {"confirmed", "active"}
                   THEN /\ rentals'[pk].end_date = rentals[pk].end_date + d
                        /\ rentals'[pk].payment_status = "delayed"
                   ELSE (d <= 0 \/ rentals[pk].status \in TerminalStatuses)
                        => UNCHANGED db ]_vars

\* C15: no request changes the status, the dates, the price or the
\* payment_status of a rental whose status is inquiry.
C15_InquiryReadOnly ==
    [][ \A pk \in DOMAIN rentals :
            rentals[pk].status = "inquiry"
            => /\ rentals'[pk].status = "inquiry"
               /\ rentals'[pk].start_date = rentals[pk].start_date
               /\ rentals'[pk].end_date = rentals[pk].end_date
               /\ rentals'[pk].total_price = rentals[pk].total_price
               /\ rentals'[pk].payment_status = rentals[pk].payment_status ]_vars

\* An extend request on the only rental, an inquiry, was just answered with an
\* error, and the rental is the one-day, zero-price row it was created as.
C15_Witness ==
    /\ resp = Message("extend", "failed")
    /\ Len(rentals) = 1
    /\ rentals[1].status = "inquiry"
    /\ rentals[1].start_date = Today
    /\ rentals[1].end_date = Today + 1
    /\ rentals[1].total_price = 0
    /\ rentals[1].payment_status = "pending"

\* C16: a reject request without a reason does not move a rental to rejected:
\* every rental in status rejected has a non-empty rejection_reason.
C16_RejectedHasReason ==
    \A pk \in DOMAIN rentals :
        rentals[pk].status = "rejected" => rentals[pk].rejection_reason # ""

----------------------------------------------------------------------------
\* Properties of the chat sessions.

\* User u may open the chat of rental r: the rental exists and u is its client,
\* its manager, or an administrator.
Admitted(u, r) ==
    /\ r \in DOMAIN rentals
    /\ \/ Role(u) = "client" /\ rentals[r].client = u
       \/ Role(u) = "manager" /\ rentals[r].manager = u
       \/ Role(u) = "administrator"

\* The other party of the chat of rental r for user u: the rental's manager (none
\* when none is assigned) for a client, the rental's client for a manager, none
\* for an administrator.
Counterparty(u, r) ==
    IF Role(u) = "client" THEN rentals[r].manager
    ELSE IF Role(u) = "manager" THEN rentals[r].client
    ELSE None

\* C17: a chat connection of an authenticated user u for rental r is admitted
\* exactly when the rental exists and u is its client, its manager or an
\* administrator (owners and other clients and managers are denied), and the
\* counterparty of an admitted session is the rental's manager for a client (none
\* without a manager), the rental's client for a manager, none for an
\* administrator.
C17_AccessDecision ==
    [][ \A s \in SessionIds, u \in Users, r \in RentalIds :
            ChatConnect(s, u, r)
            => /\ sessions'[s].state = "joined" <=> Admitted(u, r)
               /\ sessions'[s].state # "joined" => sessions'[s].state = "closed"
               /\ Admitted(u, r) => sessions'[s].other_user_id = Counterparty(u, r) ]_vars

\* Client c2 has joined the chat of their rental, which has no manager, without a
\* counterparty, and the owner was refused.
C17_Witness ==
    \E s \in SessionIds, t \in SessionIds :
        /\ sessions[s].state = "joined"
        /\ sessions[s].user = "c2"
        /\ sessions[s].rental_id = 2
        /\ sessions[s].other_user_id = None
        /\ sessions[t].state = "closed"
        /\ sessions[t].consumer = "chat"
        /\ sessions[t].user = "o1"
        /\ sessions[t].disconnects = 0

\* C18: a frame received on a joined chat session is dropped without a trace (no
\* ChatMessage row, no broadcast, no notification, no error) when the sender is
\* an administrator, the payload does not parse as JSON, the trimmed message text
\* is empty or the session has no counterparty; every other frame persists
\* exactly one ChatMessage of type text.
C18_DropOrPersistOne ==
    [][ \A s \in SessionIds, f \in Frames :
            ChatReceive(s, f)
            => LET data == JsonLoads(f)
                   blank == /\ data.type = "object"
                            /\ \/ ~data.has_message
                               \/ data.message.type = "null"
                               \/ /\ data.message.type = "string"
                                  /\ Strip(data.message.chars) = << >>
               IN  IF \/ Role(sessions[s].user) = "administrator"
                      \/ ~data.ok
                      \/ blank
                      \/ sessions[s].other_user_id = None
                   THEN UNCHANGED chat
                   ELSE /\ Len(chat_messages') = Len(chat_messages) + 1
                        /\ SubSeq(chat_messages', 1, Len(chat_messages)) = chat_messages
                        /\ chat_messages'[Len(chat_messages')].message_type = "text" ]_vars

\* C19: a disconnect, also a second one or one on a session that never joined,
\* raises no error, removes at most the session's own membership, and removes
\* nothing when the session never joined or has disconnected before.
C19_DisconnectIdempotent ==
    [][ \A s \in SessionIds :
            Disconnect(s)
            => /\ sessions'[s].state = "closed"
               /\ groups' \subseteq groups
               /\ \A g \in groups \ groups' : g[2] = s
               /\ Cardinality(groups \ groups') <= 1
               /\ (sessions[s].group = None \/ sessions[s].disconnects > 0)
                  => groups' = groups ]_vars

\* A session that had joined the chat of rental 1 has disconnected twice and is
\* out of the room, in which the other session still is.
C19_Witness ==
    \E s \in SessionIds, t \in SessionIds :
        /\ s # t
        /\ sessions[s].group = ChatGroup(1)
        /\ sessions[s].disconnects = 2
        /\ <<ChatGroup(1), s>> \notin groups
        /\ sessions[t].state = "joined"
        /\ <<ChatGroup(1), t>> \in groups

----------------------------------------------------------------------------
\* Properties of the rentals of one item and of their payments.

\* C25: in every reachable state, if some rental of the item has status confirmed
\* or active then the item's status is rented: completing or cancelling one
\* rental never makes the item available while another rental of it is still
\* confirmed.
C25_ConfirmedMeansRented ==
    \A pk \in DOMAIN rentals :
        rentals[pk].status \in {"confirmed", "active"} => inventory.status = "rented"

\* The completed rentals of the item.
CompletedRentals == { pk \in DOMAIN rentals : rentals[pk].status = "completed" }

\* The payouts of the completed rentals among the first n rentals under the
\* current agreement, in 1/100 kopeck.
RECURSIVE PayoutsDue(_)
PayoutsDue(n) ==
    IF n = 0 THEN 0
    ELSE PayoutsDue(n - 1)
         + (IF n \in CompletedRentals /\ CurrentAgreement # 0
            THEN OwnerAmount(rentals[n].total_price,
                             agreements[CurrentAgreement].owner_percentage)
            ELSE 0)

\* C26: completion effects are applied exactly once per rental, also when two
\* complete requests for one rental are processed concurrently: in every
\* reachable state inventory.total_rentals is the number of completed rentals of
\* the item, a client's loyalty_points are 10 times the number of that client's
\* completed rentals, and the owner is credited at most one payout per rental.
C26_CompletionOnce ==
    /\ inventory.total_rentals = Cardinality(CompletedRentals)
    /\ \A c \in Clients :
         clients[c].loyalty_points = LoyaltyBonus
             * Cardinality({ pk \in CompletedRentals : rentals[pk].client = c })
    /\ owner.total_earnings * 100 <= PayoutsDue(Len(rentals))

\* The inquiry rentals of client c for the item.
Inquiries(c) ==
    { pk \in DOMAIN rentals : rentals[pk].client = c /\ rentals[pk].status = "inquiry" }

\* C29: in every reachable state, also when one client issues two start-chat
\* requests concurrently, a client has at most one inquiry rental of the item,
\* and every inquiry rental has a manager, zero price and payment_status pending.
C29_OneInquiry ==
    \A c \in Clients :
        /\ Cardinality(Inquiries(c)) <= 1
        /\ \A pk \in Inquiries(c) :
             /\ rentals[pk].manager # None
             /\ rentals[pk].total_price = 0
             /\ rentals[pk].payment_status = "pending"

\* The payments of rental pk with the given status.
PaymentsOf(pk, status) ==
    { i \in DOMAIN payments : payments[i].rental = pk /\ payments[i].status = status }

\* C30: a rental created by the booking flow starts with status pending,
\* payment_status pending and exactly one Payment, pending, of amount total_price
\* + deposit; in every reachable state a paid rental has a completed Payment, and
\* no pay request, repeated or concurrent, completes a second payment of a rental.
C30_PaymentRecords ==
    [][ /\ (Len(rentals') = Len(rentals) + 1 /\ resp'.op = "create")
           => LET pk == Len(rentals')
              IN  /\ rentals'[pk].status = "pending"
                  /\ rentals'[pk].payment_status = "pending"
                  /\ \E i \in DOMAIN payments' :
                       /\ { j \in DOMAIN payments' : payments'[j].rental = pk } = {i}
                       /\ payments'[i].status = "pending"
                       /\ payments'[i].amount
                            = rentals'[pk].total_price + rentals'[pk].deposit_paid
        /\ \A pk \in DOMAIN rentals' :
             /\ rentals'[pk].payment_status = "paid"
                => \E i \in DOMAIN payments' :
                     payments'[i].rental = pk /\ payments'[i].status = "completed"
             /\ Cardinality({ i \in DOMAIN payments' :
                                payments'[i].rental = pk
                                /\ payments'[i].status = "completed" }) <= 1 ]_vars

\* A second pay request for rental 1 was just answered "already paid": the rental
\* is paid and its only payment is completed.
C30_Witness ==
    /\ resp = Message("pay", "already_paid")
    /\ rentals[1].payment_status = "paid"
    /\ Cardinality(PaymentsOf(1, "completed")) = 1
    /\ PaymentsOf(1, "pending") = {}

----------------------------------------------------------------------------
\* Properties of the approval pipeline.

\* C24: an item's status moves only along the approval pipeline: from pending to
\* awaiting_contract by an approve or to rejected by a reject, from
\* awaiting_contract to available by a publish of the manager who approved it,
\* and then between available and rented by a rental's confirmation, completion
\* or cancellation; nothing moves an item back to pending or awaiting_contract,
\* makes a rejected item available or a not yet published item rented.
C24_PipelineMonotone ==
    [][ inventory'.status # inventory.status
        => /\ <<inventory.status, inventory'.status>> \in
                { <<"pending", "awaiting_contract">>, <<"pending", "rejected">>,
                  <<"awaiting_contract", "available">>, <<"available", "rented">>,
                  <<"rented", "available">> }
           /\ inventory'.status = "awaiting_contract"
              => /\ resp'.op = "approve"
                 /\ \E a \in Managers, d \in {-100, 15000} :
                      InventoryApprove(a, d) /\ inventory'.manager = a
           /\ inventory'.status = "rejected" => resp'.op = "reject_item"
           /\ inventory.status = "awaiting_contract"
              => /\ resp'.op = "publish"
                 /\ InventoryPublish(inventory.manager)
                 /\ \A a \in Users \ {inventory.manager} : ~InventoryPublish(a)
           /\ inventory.status \in {"available", "rented"}
              => resp'.op \in {"confirm", "complete", "cancel"} ]_vars

----------------------------------------------------------------------------
\* Properties of the chat traffic.

\* The events session t has been handed, in the order its channel got them:
\* those already sent to the socket, then those still waiting.
Received(t) == sessions[t].socket \o sessions[t].inbox

\* C23: the messages of a rental room reach every room member in the order they
\* were persisted, also when the client's and the manager's sessions send
\* concurrently: no member is handed a message before one persisted earlier.
C23_PersistOrder ==
    \A t \in DOMAIN sessions :
        \A i \in DOMAIN Received(t), j \in DOMAIN Received(t) :
            (/\ i < j
             /\ Received(t)[i].type = "chat.message"
             /\ Received(t)[j].type = "chat.message")
            => Received(t)[i].message < Received(t)[j].message

\* C21: for every accepted inbound message the ChatMessage is persisted first,
\* with nothing delivered yet, and its chat.message event is then handed to every
\* session that is in the rental's room at that moment, the sender's own session
\* among them, and each of them sends it to its socket.
C21_PersistThenDeliver ==
    [][ \A s \in (1..MaxTabs) :
          /\ \A f \in { "{}", "{\"message\": \" hi \"}" } :
               (ReceiveOutcome(sessions[s], f) = "send"
                /\ ReceivePersist(s, f, MaxMessages))
               => /\ Len(chat_messages') = Len(chat_messages) + 1
                  /\ chat_messages'[Len(chat_messages')].sender = sessions[s].user
                  /\ \A t \in (1..MaxTabs) : Received(t)' = Received(t)
          /\ ReceiveBroadcast(s)
             => LET m == sessions[s].message
                IN  /\ m \in DOMAIN chat_messages
                    /\ chat_messages[m].sender = sessions[s].user
                    /\ <<ChatGroup(chat_messages[m].rental), s>> \in groups
                    /\ \A t \in (1..MaxTabs) :
                         <<ChatGroup(chat_messages[m].rental), t>> \in groups
                         => sessions'[t].inbox = Append(sessions[t].inbox, RoomEvent(m))
          /\ ChatMessage(s)
             => /\ sessions'[s].socket = Append(sessions[s].socket, Head(sessions[s].inbox))
                /\ sessions'[s].inbox = Tail(sessions[s].inbox) ]_vars

\* Client c1 and manager m1 are in the room of rental 1, and the sockets of both
\* have been sent the message c1 sent.
C21_Witness ==
    \E s \in (1..MaxTabs), t \in (1..MaxTabs) :
        /\ s # t
        /\ Len(chat_messages) = 1
        /\ chat_messages[1].sender = "c1"
        /\ sessions[s].user = "c1"
        /\ sessions[t].user = "m1"
        /\ <<ChatGroup(1), s>> \in groups
        /\ <<ChatGroup(1), t>> \in groups
        /\ sessions[s].socket = << RoomEvent(1) >>
        /\ sessions[t].socket = << RoomEvent(1) >>

\* C22: for every persisted chat message a notify.message is handed to every live
\* connection in the counterparty's group user_{id}, all of the user's
\* connections, whether or not the counterparty is in the chat room; with no
\* live connection the ChatMessage stays persisted, and a notification is never
\* handed over later than its send.
C22_NotifyEveryConnection ==
    [][ /\ \A s \in (1..MaxTabs) :
             /\ ReceiveNotify(s)
                => LET m == sessions[s].message
                       g == UserGroup(chat_messages[m].receiver)
                   IN  /\ chat_messages' = chat_messages
                       /\ \A t \in (1..MaxTabs) :
                            IF <<g, t>> \in groups
                            THEN sessions'[t].inbox
                                   = Append(sessions[t].inbox, NotifyEvent(m))
                            ELSE Received(t)' = Received(t)
             /\ NotifyMessage(s)
                => sessions'[s].socket = Append(sessions[s].socket, Head(sessions[s].inbox))
             /\ (/\ Len(sessions'[s].inbox) > Len(sessions[s].inbox)
                 /\ sessions'[s].inbox[Len(sessions'[s].inbox)].type = "notify.message")
                => \E t \in (1..MaxTabs) :
                     /\ ReceiveNotify(t)
                     /\ sessions'[s].inbox[Len(sessions'[s].inbox)].message
                          = sessions[t].message
        /\ \A m \in DOMAIN chat_messages' :
             \/ \E s \in (1..MaxTabs) : /\ sessions'[s].message = m
                                /\ sessions'[s].state \in {"persisted", "broadcast"}
             \/ Cardinality({ i \in DOMAIN sent' :
                               /\ sent'[i].type = "notify.message"
                               /\ sent'[i].message = m }) = 1 ]_vars

\* Manager m1 has two notification connections and is not in the chat room of
\* rental 1; both have been sent the notification of the message client c1 sent.
C22_Witness ==
    \E s \in (1..MaxTabs), t \in (1..MaxTabs), u \in (1..MaxTabs) :
        /\ t # u
        /\ sessions[s].user = "c1"
        /\ groups = { <<ChatGroup(1), s>>, <<UserGroup("m1"), t>>, <<UserGroup("m1"), u>> }
        /\ Len(chat_messages) = 1
        /\ chat_messages[1].receiver = "m1"
        /\ sessions[t].socket = << NotifyEvent(1) >>
        /\ sessions[u].socket = << NotifyEvent(1) >>

\* C28: chat traffic is isolated per rental and per user: a session in room
\* chat_r is handed chat.message events only of messages whose rental is r, and
\* the notify.message of a message is handed only to connections of the user who
\* is that message's receiver.
C28_Isolation ==
    \A t \in DOMAIN sessions :
        \A i \in DOMAIN Received(t) :
            LET e == Received(t)[i]
            IN  /\ e.message \in DOMAIN chat_messages
                /\ e.type = "chat.message"
                   => /\ sessions[t].consumer = "chat"
                      /\ sessions[t].rental_id = chat_messages[e.message].rental
                /\ e.type = "notify.message"
                   => sessions[t].user = chat_messages[e.message].receiver

\* Client c1's message in the room of rental 1 has reached c1's socket and the
\* notification socket of manager m1, while client c2, in the room of rental 2,
\* has been handed nothing.
C28_Witness ==
    \E s \in (1..MaxTabs), t \in (1..MaxTabs), u \in (1..MaxTabs) :
        /\ sessions[s].user = "c1"
        /\ sessions[s].socket = << RoomEvent(1) >>
        /\ sessions[t].user = "m1"
        /\ sessions[t].consumer = "notifications"
        /\ sessions[t].socket = << NotifyEvent(1) >>
        /\ sessions[u].user = "c2"
        /\ <<ChatGroup(2), u>> \in groups
        /\ Received(u) = << >>
        /\ chat_messages[1].rental = 1

\* C27: every ChatMessage of a rental is persisted with the user of the rental's
\* client and the user of the rental's manager, as they are at that moment, as
\* its sender and receiver, one in each role, also when a confirm set or replaced
\* the manager after the sending session joined the room.
C27_PartiesAtPersist ==
    [][ Len(chat_messages') = Len(chat_messages) + 1
        => LET row == chat_messages'[Len(chat_messages')]
               rental == rentals[row.rental]
           IN  \/ row.sender = rental.client /\ row.receiver = rental.manager
               \/ row.sender = rental.manager /\ row.receiver = rental.client ]_vars

====
